---- MODULE Spec2Model ----
(***************************************************************************)
(* township-rs: a batch job that reads a newline separated address list,   *)
(* geocodes every address, picks a township out of each geocode response   *)
(* (get_township) and writes the (address, township) rows to output.csv.   *)
(*                                                                         *)
(* Spec          the whole run of main().                                  *)
(* SpecResolver  get_township alone, over every response within bounds.    *)
(***************************************************************************)
EXTENDS Naturals, Sequences, FiniteSets

VARIABLES
    pc,         \* position of main / get_geo_data
    exit,       \* "running", or how main returned
    apiKey,     \* TRUE iff env::var("API_KEY") is set (after dotenv)
    source,     \* the address file: [readable, contents]
    outFile,    \* output.csv on disk: "absent", "stale" (left by an earlier run), "created"
    io,         \* file system calls made so far, in order
    addresses,  \* Vec<String> returned by read_addresses
    idx,        \* get_geo_data: position of the for loop in addresses
    requests,   \* the addresses for which a GET was sent, in order
    results,    \* get_geo_data: results
    widx,       \* main: position of the for loop over results
    output,     \* records handed to csv_writer, in order
    rpc,        \* position inside get_township
    response,   \* get_township: its argument
    township,   \* get_township: its local township
    ret         \* get_township: its return value

vars == <<pc, exit, apiKey, source, outFile, io, addresses, idx, requests,
          results, widx, output, rpc, response, township, ret>>

mainVars == <<pc, exit, apiKey, source, outFile, io, addresses, idx, requests,
              results, widx, output>>

resolverVars == <<rpc, response, township, ret>>

(***************************************************************************)
(* Bounds                                                                  *)
(***************************************************************************)
MaxComponents == 2

MaxContentLen == 3

(***************************************************************************)
(* Data model                                                              *)
(***************************************************************************)
PriorityTags == {"locality", "administrative_area_level_3", "administrative_area_level_2"}

\* Vec<String> types, as the set of its tags (get_township only asks whether
\* a tag occurs, with iter().any): every combination of the three tags it
\* looks for, and one that carries none of them.
TypeSets == (SUBSET PriorityTags) \cup {{"route"}}

LongNames == {"Springfield", "Springfieldville", "North Springfield"}

\* AddressComponent
AddressComponent == [long_name : LongNames, short_name : {"SN"}, types : TypeSets]

ComponentLists == UNION {[1..n -> AddressComponent] : n \in 0..MaxComponents}

\* AddressResult
AddressResult == [address_components : ComponentLists, formatted_address : {"1 Main St"}]

\* A second candidate match, which the service ranks below the first.
OtherResult ==
    [address_components |-> <<[long_name |-> "Springfield", short_name |-> "SN", types |-> {"locality"}]>>,
     formatted_address |-> "2 Side St"]

\* GeoDataAddress
GeoDataAddress ==
    [status : {"OK", "ZERO_RESULTS"},
     results : {<<>>} \cup {<<r>> : r \in AddressResult} \cup {<<r, OtherResult>> : r \in AddressResult}]

\* Option<(String, String)>
None == [some |-> FALSE]

Some(address, name) == [some |-> TRUE, address |-> address, township |-> name]

NoResponse == [status |-> "", results |-> <<>>]

(***************************************************************************)
(* get_township                                                            *)
(***************************************************************************)
HasType(c, t) == t \in c.types

\* ScanComponents as the doc comment of get_township words it: a locality
\* anywhere wins over a level 3 area, which wins over a level 2 area.
ScanComponentsByPriority(components, init) ==
    LET Tagged(t) == {k \in 1..Len(components) : HasType(components[k], t)}
        First(S) == CHOOSE k \in S : \A m \in S : k <= m
    IN  IF Tagged("locality") # {} THEN components[First(Tagged("locality"))].long_name
        ELSE IF Tagged("administrative_area_level_3") # {}
             THEN components[First(Tagged("administrative_area_level_3"))].long_name
        ELSE IF Tagged("administrative_area_level_2") # {}
             THEN components[First(Tagged("administrative_area_level_2"))].long_name
        ELSE init

\* The for loop over address_components: the first component carrying any of
\* the three tags sets township and breaks.
RECURSIVE ScanComponents(_, _)
ScanComponents(components, init) ==
    IF components = <<>> THEN init
    ELSE LET c == Head(components) IN
         IF HasType(c, "locality") THEN c.long_name
         ELSE IF HasType(c, "administrative_area_level_3") THEN c.long_name
         ELSE IF HasType(c, "administrative_area_level_2") THEN c.long_name
         ELSE ScanComponents(Tail(components), init)

\* SpringfieldOverride matching on the prefix instead of the whole name.
SpringfieldOverridePrefix(t) ==
    IF t \in {"Springfield", "Springfieldville"} THEN "Springfield City" ELSE t

SpringfieldOverride(t) == IF t = "Springfield" THEN "Springfield City" ELSE t

\* CheckStatus without the early return.
CheckStatusIgnored ==
    /\ rpc = "entry"
    /\ rpc' = "first"
    /\ UNCHANGED <<response, township, ret>>
    /\ UNCHANGED mainVars

\* if result.status != "OK" { return None; }
CheckStatus ==
    /\ rpc = "entry"
    /\ IF response.status # "OK"
       THEN /\ ret' = None
            /\ rpc' = "returned"
       ELSE /\ ret' = ret
            /\ rpc' = "first"
    /\ UNCHANGED <<response, township>>
    /\ UNCHANGED mainVars

\* let mut township = String::new(); let first_result = result.results.get(0)?;
FirstResult ==
    /\ rpc = "first"
    /\ township' = ""
    /\ IF response.results = <<>>
       THEN /\ ret' = None
            /\ rpc' = "returned"
       ELSE /\ ret' = ret
            /\ rpc' = "scan"
    /\ UNCHANGED response
    /\ UNCHANGED mainVars

Scan ==
    /\ rpc = "scan"
    /\ township' = ScanComponents(response.results[1].address_components, township)
    /\ rpc' = "override"
    /\ UNCHANGED <<response, ret>>
    /\ UNCHANGED mainVars

Override ==
    /\ rpc = "override"
    /\ township' = SpringfieldOverride(township)
    /\ rpc' = "return"
    /\ UNCHANGED <<response, ret>>
    /\ UNCHANGED mainVars

\* ReturnSome treating an empty township as a failure to parse.
ReturnNoneIfEmpty ==
    /\ rpc = "return"
    /\ ret' = IF township = "" THEN None
              ELSE Some(response.results[1].formatted_address, township)
    /\ rpc' = "returned"
    /\ UNCHANGED <<response, township>>
    /\ UNCHANGED mainVars

ReturnSome ==
    /\ rpc = "return"
    /\ ret' = Some(response.results[1].formatted_address, township)
    /\ rpc' = "returned"
    /\ UNCHANGED <<response, township>>
    /\ UNCHANGED mainVars

get_township ==
    \/ CheckStatus
    \/ FirstResult
    \/ Scan
    \/ Override
    \/ ReturnSome

InitResolver ==
    /\ pc = "get_township"
    /\ exit = "running"
    /\ apiKey = TRUE
    /\ source = [readable |-> TRUE, contents |-> <<>>]
    /\ outFile = "created"
    /\ io = <<>>
    /\ addresses = <<>>
    /\ idx = 1
    /\ requests = <<>>
    /\ results = <<>>
    /\ widx = 1
    /\ output = <<>>
    /\ rpc = "entry"
    /\ response \in GeoDataAddress
    /\ township = ""
    /\ ret = None

SpecResolver == InitResolver /\ [][get_township]_vars

(***************************************************************************)
(* read_addresses                                                          *)
(***************************************************************************)
NL == "\n"

Chars == {"a", " ", NL}

\* What the address file may hold: every text of at most MaxContentLen characters.
Contents == UNION {[1..n -> Chars] : n \in 0..MaxContentLen}

Sources ==
    {[readable |-> FALSE, contents |-> <<>>]}
        \cup {[readable |-> TRUE, contents |-> c] : c \in Contents}

\* contents.split("\n"): cur is the piece being read, acc the pieces before it.
RECURSIVE SplitFrom(_, _, _)
SplitFrom(s, cur, acc) ==
    IF s = <<>> THEN Append(acc, cur)
    ELSE IF Head(s) = NL THEN SplitFrom(Tail(s), <<>>, Append(acc, cur))
    ELSE SplitFrom(Tail(s), Append(cur, Head(s)), acc)

\* split dropping the empty pieces, as a filter on blank lines would.
RECURSIVE DropEmpty(_)
DropEmpty(pieces) ==
    IF pieces = <<>> THEN <<>>
    ELSE IF Head(pieces) = <<>> THEN DropEmpty(Tail(pieces))
    ELSE <<Head(pieces)>> \o DropEmpty(Tail(pieces))

split_nonempty(contents) == DropEmpty(SplitFrom(contents, <<>>, <<>>))

split(contents) == SplitFrom(contents, <<>>, <<>>)

(***************************************************************************)
(* The geocoding service: what a GET may be answered with.                 *)
(***************************************************************************)
Component(name, types) == [long_name |-> name, short_name |-> "SN", types |-> types]

Result(components) == [address_components |-> components, formatted_address |-> "1 Main St"]

ServiceResponses ==
    {[status |-> "ZERO_RESULTS", results |-> <<>>],
     [status |-> "ZERO_RESULTS", results |-> <<Result(<<Component("Springfield", {"locality"})>>)>>],
     [status |-> "OK", results |-> <<>>],
     [status |-> "OK", results |-> <<Result(<<Component("Springfield", {"locality"})>>)>>],
     [status |-> "OK", results |-> <<Result(<<Component("North Springfield", {"route"})>>), OtherResult>>]}

(***************************************************************************)
(* main and get_geo_data                                                   *)
(***************************************************************************)
\* remove_file leaving output.csv in place.
remove_file_skipped ==
    /\ pc = "remove_file"
    /\ io' = Append(io, "remove_file")
    /\ pc' = "read_addresses"
    /\ UNCHANGED <<exit, apiKey, source, outFile, addresses, idx, requests, results, widx, output>>
    /\ UNCHANGED resolverVars

\* if let Err(_) = fs::remove_file("output.csv") { println!(..) }
\* An Err is taken, as the message printed for it says, to mean that the file
\* did not exist.
remove_file ==
    /\ pc = "remove_file"
    /\ io' = Append(io, "remove_file")
    /\ outFile' = "absent"
    /\ pc' = "read_addresses"
    /\ UNCHANGED <<exit, apiKey, source, addresses, idx, requests, results, widx, output>>
    /\ UNCHANGED resolverVars

\* if let Ok(addrs) = read_addresses() { .. } Ok(())
read_addresses ==
    /\ pc = "read_addresses"
    /\ io' = Append(io, "read_to_string")
    /\ IF source.readable
       THEN /\ addresses' = split(source.contents)
            /\ pc' = "env_var"
            /\ exit' = exit
       ELSE /\ addresses' = addresses
            /\ pc' = "exit"
            /\ exit' = "Ok"
    /\ UNCHANGED <<apiKey, source, outFile, idx, requests, results, widx, output>>
    /\ UNCHANGED resolverVars

\* env_var falling back to an empty key instead of returning the error.
env_var_or_default ==
    /\ pc = "env_var"
    /\ pc' = "for_address"
    /\ results' = <<>>
    /\ idx' = 1
    /\ UNCHANGED <<exit, apiKey, source, outFile, io, addresses, requests, widx, output>>
    /\ UNCHANGED resolverVars

\* let api_key = env::var("API_KEY")?; let mut results = vec![];
env_var ==
    /\ pc = "env_var"
    /\ IF apiKey
       THEN /\ pc' = "for_address"
            /\ exit' = exit
       ELSE /\ pc' = "exit"
            /\ exit' = "MissingCredential"
    /\ results' = <<>>
    /\ idx' = 1
    /\ UNCHANGED <<apiKey, source, outFile, io, addresses, requests, widx, output>>
    /\ UNCHANGED resolverVars

\* for address in addresses { client.get(base_url).query(..).send() ; after the loop Ok(results)
send ==
    /\ pc = "for_address"
    /\ IF idx <= Len(addresses)
       THEN /\ requests' = Append(requests, addresses[idx])
            /\ pc' = "await"
       ELSE /\ requests' = requests
            /\ pc' = "from_path"
    /\ UNCHANGED <<exit, apiKey, source, outFile, io, addresses, idx, results, widx, output>>
    /\ UNCHANGED resolverVars

\* .await?.json().await?; results.push(response);
await ==
    /\ pc = "await"
    /\ \/ \E r \in ServiceResponses :
             /\ results' = Append(results, r)
             /\ idx' = idx + 1
             /\ pc' = "for_address"
             /\ exit' = exit
       \/ /\ pc' = "exit"
          /\ exit' = "TransportError"
          /\ UNCHANGED <<results, idx>>
    /\ UNCHANGED <<apiKey, source, outFile, io, addresses, requests, widx, output>>
    /\ UNCHANGED resolverVars

\* let mut csv_writer = Writer::from_path("output.csv")?;
from_path ==
    /\ pc = "from_path"
    /\ io' = Append(io, "from_path")
    /\ \/ /\ outFile' = "created"
          /\ pc' = "write_header"
          /\ exit' = exit
       \/ /\ pc' = "exit"
          /\ exit' = "IoError"
          /\ outFile' = outFile
    /\ UNCHANGED <<apiKey, source, addresses, idx, requests, results, widx, output>>
    /\ UNCHANGED resolverVars

\* csv_writer.write_record(&["Address", "Township"])?;
write_header ==
    /\ pc = "write_header"
    /\ \/ /\ output' = Append(output, <<"Address", "Township">>)
          /\ pc' = "for_result"
          /\ exit' = exit
       \/ /\ pc' = "exit"
          /\ exit' = "IoError"
          /\ output' = output
    /\ widx' = 1
    /\ UNCHANGED <<apiKey, source, outFile, io, addresses, idx, requests, results>>
    /\ UNCHANGED resolverVars

\* for addr in results { .. get_township(addr) ; after the loop csv_writer.flush()
call_get_township ==
    /\ pc = "for_result"
    /\ IF widx <= Len(results)
       THEN /\ response' = results[widx]
            /\ rpc' = "entry"
            /\ pc' = "get_township"
       ELSE /\ response' = response
            /\ rpc' = rpc
            /\ pc' = "flush"
    /\ UNCHANGED <<exit, apiKey, source, outFile, io, addresses, idx, requests, results, widx, output>>
    /\ UNCHANGED <<township, ret>>

\* write_record leaving out a row that was written before.
write_record_dedup ==
    /\ pc = "get_township"
    /\ rpc = "returned"
    /\ \/ /\ ret.some
          /\ output' = IF \E k \in 1..Len(output) : output[k] = <<ret.address, ret.township>>
                       THEN output
                       ELSE Append(output, <<ret.address, ret.township>>)
          /\ pc' = "for_result"
          /\ exit' = exit
       \/ /\ ~ret.some
          /\ pc' = "for_result"
          /\ UNCHANGED <<exit, output>>
    /\ widx' = widx + 1
    /\ rpc' = "idle"
    /\ response' = NoResponse
    /\ township' = ""
    /\ ret' = None
    /\ UNCHANGED <<apiKey, source, outFile, io, addresses, idx, requests, results>>

\* if let Some((full_address, township)) = .. { csv_writer.write_record(&[full_address, township])?; }
write_record ==
    /\ pc = "get_township"
    /\ rpc = "returned"
    /\ \/ /\ ret.some
          /\ output' = Append(output, <<ret.address, ret.township>>)
          /\ pc' = "for_result"
          /\ exit' = exit
       \/ /\ ret.some
          /\ pc' = "exit"
          /\ exit' = "IoError"
          /\ output' = output
       \/ /\ ~ret.some
          /\ pc' = "for_result"
          /\ UNCHANGED <<exit, output>>
    /\ widx' = widx + 1
    /\ rpc' = "idle"
    /\ response' = NoResponse
    /\ township' = ""
    /\ ret' = None
    /\ UNCHANGED <<apiKey, source, outFile, io, addresses, idx, requests, results>>

\* csv_writer.flush()?; Ok(())
flush ==
    /\ pc = "flush"
    /\ io' = Append(io, "flush")
    /\ pc' = "exit"
    /\ \/ exit' = "Ok"
       \/ exit' = "IoError"
    /\ UNCHANGED <<apiKey, source, outFile, addresses, idx, requests, results, widx, output>>
    /\ UNCHANGED resolverVars

Init ==
    /\ pc = "remove_file"
    /\ exit = "running"
    /\ apiKey \in BOOLEAN
    /\ source \in Sources
    /\ outFile \in {"absent", "stale"}
    /\ io = <<>>
    /\ addresses = <<>>
    /\ idx = 1
    /\ requests = <<>>
    /\ results = <<>>
    /\ widx = 1
    /\ output = <<>>
    /\ rpc = "idle"
    /\ response = NoResponse
    /\ township = ""
    /\ ret = None

Next ==
    \/ remove_file
    \/ read_addresses
    \/ env_var
    \/ send
    \/ await
    \/ from_path
    \/ write_header
    \/ call_get_township
    \/ CheckStatus
    \/ FirstResult
    \/ Scan
    \/ Override
    \/ ReturnSome
    \/ write_record
    \/ flush

Spec == Init /\ [][Next]_vars

(***************************************************************************)
(* What the township of a response is, stated without the loop.            *)
(***************************************************************************)
Header == <<"Address", "Township">>

Matches(c) == c.types \cap PriorityTags # {}

FirstComponents(r) == r.results[1].address_components

MatchingAt(r) == {k \in 1..Len(FirstComponents(r)) : Matches(FirstComponents(r)[k])}

EarliestMatch(r) == CHOOSE k \in MatchingAt(r) : \A m \in MatchingAt(r) : k <= m

Selected(r) ==
    IF MatchingAt(r) = {} THEN "" ELSE FirstComponents(r)[EarliestMatch(r)].long_name

Resolves(r) == r.status = "OK" /\ r.results # <<>>

RowOf(r) ==
    <<r.results[1].formatted_address,
      IF Selected(r) = "Springfield" THEN "Springfield City" ELSE Selected(r)>>

RECURSIVE RowsOf(_)
RowsOf(rs) ==
    IF rs = <<>> THEN <<>>
    ELSE (IF Resolves(Head(rs)) THEN <<RowOf(Head(rs))>> ELSE <<>>) \o RowsOf(Tail(rs))

RECURSIVE JoinLines(_)
JoinLines(lines) ==
    IF lines = <<>> THEN <<>>
    ELSE IF Len(lines) = 1 THEN lines[1]
    ELSE lines[1] \o <<NL>> \o JoinLines(Tail(lines))

TaggedAt(r, t) == {k \in 1..Len(FirstComponents(r)) : t \in FirstComponents(r)[k].types}

LoopFinished ==
    \/ pc \in {"from_path", "write_header", "for_result", "get_township", "flush"}
    \/ pc = "exit" /\ Len(io) > 2

(***************************************************************************)
(* Claims                                                                  *)
(***************************************************************************)

\* C1: a response whose status is not "OK", or whose results are empty, makes
\* get_township return None whatever its address_components hold; the scan
\* of the components is never entered for it.
C1_NoTownshipWithoutOkResult ==
    (response.status # "OK" \/ response.results = <<>>) =>
        /\ ret = None
        /\ rpc \notin {"scan", "override", "return"}

C1_Witness ==
    /\ rpc = "returned"
    /\ response.status # "OK"
    /\ response.results # <<>>
    /\ TaggedAt(response, "locality") # {}
    /\ ret = None

\* C2: with status "OK", no locality component in the first result and a
\* level 3 component in it, the township selected is the long_name of the
\* level 3 component, wherever a level 2 component stands in the list.
C2_Level3BeforeLevel2 ==
    ( /\ rpc = "override"
      /\ TaggedAt(response, "locality") = {}
      /\ TaggedAt(response, "administrative_area_level_3") # {} ) =>
        \E k \in TaggedAt(response, "administrative_area_level_3") :
            township = FirstComponents(response)[k].long_name

C4_SomeForEveryOkResult ==
    (rpc = "returned" /\ Resolves(response)) =>
        /\ ret.some
        /\ ret.address = response.results[1].formatted_address
        /\ MatchingAt(response) = {} => ret.township = ""

C4_Witness ==
    /\ rpc = "returned"
    /\ response.status = "OK"
    /\ Len(response.results) = 2
    /\ FirstComponents(response) = <<>>
    /\ ret = Some("1 Main St", "")

\* C5: the township returned is "Springfield City" when the selected
\* long_name is exactly "Springfield", and the selected long_name itself
\* otherwise, "Springfieldville" and "North Springfield" included.
C5_SpringfieldOverrideExact ==
    (rpc = "returned" /\ Resolves(response)) =>
        /\ ret.some
        /\ Selected(response) = "Springfield" => ret.township = "Springfield City"
        /\ Selected(response) # "Springfield" => ret.township = Selected(response)

C5_Witness ==
    /\ rpc = "returned"
    /\ Resolves(response)
    /\ Selected(response) = "Springfield"
    /\ ret.some
    /\ ret.township = "Springfield City"

\* C6: the data rows written are the rows of the responses that resolve,
\* one each, in the order of the results (which is the order of the
\* addresses); a response that does not resolve adds nothing, and equal rows
\* are neither merged nor moved. A run that ends well has handled them all.
C6_RowsInInputOrder ==
    /\ pc \in {"for_result", "get_township", "flush"} =>
          output = <<Header>> \o RowsOf(SubSeq(results, 1, widx - 1))
    /\ (exit = "Ok" /\ source.readable) =>
          /\ Len(results) = Len(addresses)
          /\ output = <<Header>> \o RowsOf(results)
          /\ outFile = "created"

C6_Witness ==
    /\ exit = "Ok"
    /\ Len(results) = 4
    /\ Resolves(results[1])
    /\ ~Resolves(results[2])
    /\ results[3] = results[1]
    /\ Resolves(results[4])
    /\ results[4] # results[1]
    /\ output = <<Header, RowOf(results[1]), RowOf(results[1]), RowOf(results[4])>>

C9_UnreadableSourceIsFatal ==
    (~source.readable /\ pc = "exit") =>
        /\ exit # "Ok"
        /\ requests = <<>>

\* C10: with a credential and a readable address list, the requests are the
\* entries of the list in order, one per entry and one at a time, up to the
\* first failure and all of them when none fails; the entries are the lines
\* of the file as they stand, the empty ones included.
C10_OneRequestPerEntryInOrder ==
    /\ requests = SubSeq(addresses, 1, Len(requests))
    /\ Len(requests) = Len(results) + (IF pc = "await" \/ exit = "TransportError" THEN 1 ELSE 0)
    /\ (source.readable /\ pc \notin {"remove_file", "read_addresses"}) =>
          /\ addresses # <<>>
          /\ JoinLines(addresses) = source.contents
          /\ \A k \in 1..Len(addresses) : \A m \in 1..Len(addresses[k]) : addresses[k][m] # NL
    /\ LoopFinished => requests = addresses

C10_Witness ==
    /\ exit = "Ok"
    /\ source.contents = <<"a", NL, NL>>
    /\ requests = << <<"a">>, <<>>, <<>> >>
    /\ Len(results) = 3

====
